---------------------------- MODULE Spec2Model ----------------------------
(***************************************************************************)
(* A model of jaspercb/powergen, src/powers2.py: the node-type library,    *)
(* the memoized depth-first search for a topologically sorted node-type    *)
(* sequence, the sampling graph assembler, the canonical graph hash and    *)
(* the generate_unique driver.                                             *)
(*                                                                         *)
(* Types are modelled by their names (strings), FrozenMultiset values by   *)
(* bags, node classes by records of INTYPES / OUTTYPES / FORMATSTRINGS.    *)
(* xxhash.xxh64 is modelled as a collision-free digest: the digest of a    *)
(* piece of data is the data that was fed to it.                           *)
(***************************************************************************)
EXTENDS Bags, FiniteSets, Integers, Sequences, TLC

(***************************************************************************)
(* Configuration variables, powers2.py lines 57-58.                        *)
(***************************************************************************)
MAX_GAME_EFFECTS_PER_POWER == 3
MAX_INTERMEDIATE_UNBOUND_VARS == 4

(***************************************************************************)
(* Bounds of the model.                                                    *)
(*   MaxN      the largest n_unique a session is started with              *)
(*   MaxDepth  the depth of nested dfs calls at which the interpreter's    *)
(*             recursion limit is taken to be hit (RuntimeError)           *)
(*   MaxExpand the value at which the per-state expansion counter stops    *)
(*             counting                                                    *)
(*   MaxSeq    the longest list of node types, after InKey, drawn from     *)
(*             AssemblerPool as an argument of the two assemblers          *)
(*   MaxOptional  the longest list of optional input types a              *)
(*             create_node_type call is given                              *)
(***************************************************************************)
MaxN == 3
MaxDepth == 7
MaxExpand == 2
MaxSeq == 3
MaxOptional == 3

(***************************************************************************)
(* Utilities.                                                              *)
(***************************************************************************)
Range(s) == {s[i] : i \in DOMAIN s}

RECURSIVE Flatten(_)
Flatten(ss) == IF ss = <<>> THEN <<>> ELSE Head(ss) \o Flatten(Tail(ss))

\* itertools.combinations(s, r): the length-r subsequences of s, in
\* lexicographic order of their index tuples.
RECURSIVE combinations(_, _)
combinations(s, r) ==
    IF r = 0 THEN << <<>> >>
    ELSE IF Len(s) < r THEN <<>>
    ELSE LET withHead == combinations(Tail(s), r - 1)
         IN  [i \in 1..Len(withHead) |-> <<Head(s)>> \o withHead[i]]
             \o combinations(Tail(s), r)

\* Mutant of powerset: range(len(s)) in place of range(len(s) + 1).
powerset_short(s) == Flatten([k \in 1..Len(s) |-> combinations(s, k - 1)])

\* powerset(iterable): chain of combinations(s, r) for r in range(len(s)+1).
powerset(s) == Flatten([k \in 1..(Len(s) + 1) |-> combinations(s, k - 1)])

\* FrozenMultiset(list)
RECURSIVE FrozenMultiset(_)
FrozenMultiset(s) ==
    IF s = <<>> THEN EmptyBag
    ELSE SetToBag({Head(s)}) (+) FrozenMultiset(Tail(s))

(***************************************************************************)
(* The node-type library.                                                  *)
(***************************************************************************)
Decl(nodename, intypes, outtypes, formatstrings, optionalintypes) ==
    [nodename |-> nodename, intypes |-> intypes, outtypes |-> outtypes,
     formatstrings |-> formatstrings, optionalintypes |-> optionalintypes]

\* create_node_type: one concrete node class per element of the powerset of
\* the optional input types, named nodename + str(i) when there are any.
create_node_type(d) ==
    LET subsets == powerset(d.optionalintypes)
    IN  [i \in 1..Len(subsets) |->
            [name |-> d.nodename \o
                      (IF d.optionalintypes # <<>> THEN ToString(i - 1) ELSE ""),
             INTYPES |-> d.intypes \o subsets[i],
             OUTTYPES |-> d.outtypes,
             FORMATSTRINGS |-> d.formatstrings]]

UNIVERSALS ==
    create_node_type(Decl("OwningEntity", <<>>, <<"EntityId">>,
                          <<"the user's character">>, <<>>))

InKey ==
    create_node_type(Decl("InKey", <<>>, <<"PossiblyRepeatedInputKey">>,
                          <<"">>, <<>>))[1]

\* The entry that powers2.py lines 224-229 keep commented out.
HomingProjectileEntity ==
    create_node_type(Decl("HomingProjectileEntity", <<"EnemyEntityId">>,
                          <<"Projectile">>,
                          <<"a projectile that homes towards {0}">>, <<>>))[1]

NodeDeclarations == <<
    Decl("RepeatInputKey", <<"PossiblyRepeatedInputKey">>,
         <<"InputKey", "InputKey">>, <<"">>, <<>>),
    Decl("SingleInputKey", <<"PossiblyRepeatedInputKey">>,
         <<"InputKey">>, <<"">>, <<>>),
    Decl("InputClickPosition", <<"InputKey">>, <<"Position">>, <<"">>, <<>>),
    Decl("InputClickDirection", <<"InputKey">>, <<"Direction">>,
         <<"the direction of the user's click">>, <<>>),
    Decl("InputPerpendicularLine", <<"InputKey">>, <<"SimplePath">>,
         <<"a line perpendicular to the player">>, <<>>),
    Decl("InputClickDragReleaseDirection", <<"InputKey">>,
         <<"Position", "Direction">>,
         <<"where the user clicked",
           "where the mouse moved before releasing">>, <<>>),
    Decl("InputUnitTargetEnemy", <<"InputKey">>, <<"EnemyEntityId">>,
         <<"the clicked enemy">>, <<>>),
    Decl("InputToggle", <<"PossiblyRepeatedInputKey">>, <<"Bool">>,
         <<"a toggle is held">>, <<>>),
    Decl("DumbProjectile", <<"SimplePath">>, <<"Projectile">>,
         <<"a projectile that travels along {0}">>, <<>>),
    Decl("ProjectilePassthrough", <<"Projectile">>, <<"EnemyEntityId">>,
         <<"all enemies hit by {0}">>, <<>>),
    Decl("ProjectileCollideFirst", <<"Projectile">>, <<"EnemyEntityId">>,
         <<"the first enemy hit by {0}">>, <<>>),
    Decl("ProjectileCollideFirstTwo", <<"Projectile">>, <<"EnemyEntityId">>,
         <<"the first two enemies hit by {0}">>, <<>>),
    Decl("CircleAroundPoint", <<"Position">>, <<"Area">>,
         <<"a circle centered on {0} with radius {1}">>, <<"float">>),
    Decl("EmitRandomDirections", <<"Bool">>, <<"Direction">>,
         <<"random directions when {0}">>, <<>>),
    Decl("PositionFromEntity", <<"EntityId">>, <<"Position">>,
         <<"the position of {0}">>, <<>>),
    Decl("EntitiesInArea", <<"Area">>, <<"EnemyEntityId">>,
         <<"enemy entities in {0}">>, <<>>),
    Decl("DirectionToSimplePath", <<"Position", "Direction">>,
         <<"SimplePath">>, <<"towards {0}">>, <<>>),
    Decl("PathToProjectile", <<"SimplePath">>, <<"EnemyEntityId">>,
         <<"enemies hit by projectiles emitted {0}">>, <<>>),
    Decl("CloudFollowingPath", <<"SimplePath">>, <<"Area">>,
         <<"a cloud that moves along {0}">>, <<>>),
    Decl("PulseAlongPath", <<"SimplePath">>, <<"Position">>,
         <<"points along {0}">>, <<>>),
    Decl("PathToArea", <<"SimplePath">>, <<"Area">>,
         <<"a static cloud covering {0}">>, <<>>),
    Decl("Accumulator", <<"Position", "InKey">>, <<"Position">>,
         <<"Stores a sequence of positions for simultaneous firing {0}">>,
         <<>>),
    Decl("AddDamageOnEntity", <<"EnemyEntityId">>, <<"Damage">>,
         <<"Deal damage scaling with {1} to {0}">>, <<"float">>),
    Decl("ConditionOnEntity", <<"EnemyEntityId">>, <<"Condition">>,
         <<"Inflict a condition on {0} with intensity {1}">>, <<"float">>),
    Decl("TeleportPlayer", <<"EntityId", "Position">>, <<"GameEffect">>,
         <<"Teleports {0} to {1}">>, <<>>),
    Decl("Wall", <<"SimplePath">>, <<"GameEffect">>,
         <<"A wall following {0}">>, <<>>),
    Decl("TerminateDamage", <<"Damage">>, <<"GameEffect">>,
         <<"{0}">>, <<>>),
    Decl("TerminateCondition", <<"Condition">>, <<"GameEffect">>,
         <<"{0}">>, <<>>) >>

\* The two node types of the docstring of all_from_list_of_node_types:
\* "TypeA is a node from () => (float, float) and TypeB is a node from
\* (float, float) => ()".
TypeA ==
    create_node_type(Decl("TypeA", <<>>, <<"float", "float">>,
                          <<"", "">>, <<>>))[1]
TypeB ==
    create_node_type(Decl("TypeB", <<"float", "float">>, <<>>,
                          <<>>, <<>>))[1]

\* Mutant of ALL_NODETYPES: the node types of UNIVERSALS are chained in.
ALL_NODETYPES_universals ==
    UNIVERSALS \o Flatten([i \in 1..Len(NodeDeclarations) |->
                              create_node_type(NodeDeclarations[i])])

\* Mutant of ALL_NODETYPES: the entry of lines 224-229 is not commented out.
ALL_NODETYPES_homing ==
    LET shipped == Flatten([i \in 1..Len(NodeDeclarations) |->
                               create_node_type(NodeDeclarations[i])])
    IN  SubSeq(shipped, 1, 8) \o <<HomingProjectileEntity>>
            \o SubSeq(shipped, 9, Len(shipped))

\* ALL_NODETYPES = list(itertools.chain(create_node_type(...), ...))
ALL_NODETYPES ==
    Flatten([i \in 1..Len(NodeDeclarations) |->
                create_node_type(NodeDeclarations[i])])

\* Every node class the model knows, and the class of a given name.
KnownNodeTypes ==
    Range(ALL_NODETYPES) \cup {InKey, HomingProjectileEntity, TypeA, TypeB}
NodeTypeNames == {t.name : t \in KnownNodeTypes}
NodeClass == [n \in NodeTypeNames |-> CHOOSE t \in KnownNodeTypes : t.name = n]
INTYPES(n) == NodeClass[n].INTYPES
OUTTYPES(n) == NodeClass[n].OUTTYPES


(***************************************************************************)
(* The libraries a run is started with: selections of the entries of       *)
(* ALL_NODETYPES (an entry left out is an entry commented out, as          *)
(* HomingProjectileEntity is in the source), given by class name.          *)
(***************************************************************************)
LibTwin == {"RepeatInputKey", "InputPerpendicularLine", "Wall"}
LibFork == {"SingleInputKey", "InputClickDragReleaseDirection",
            "DirectionToSimplePath", "InputPerpendicularLine", "Wall"}
LibDead == {"InputToggle", "EmitRandomDirections"}
LibMemo == {"RepeatInputKey", "InputClickDirection",
            "InputPerpendicularLine", "Wall"}
LibBack == {"SingleInputKey", "InputToggle", "EmitRandomDirections",
            "InputClickDirection", "InputPerpendicularLine", "Wall"}
LibDamage == {"SingleInputKey", "InputUnitTargetEnemy", "InputClickPosition",
              "CircleAroundPoint0", "CircleAroundPoint1", "EntitiesInArea",
              "AddDamageOnEntity0", "AddDamageOnEntity1", "TerminateDamage",
              "Accumulator", "TeleportPlayer", "PositionFromEntity"}
LibCross == {"RepeatInputKey", "InputClickPosition", "InputClickDirection",
             "DirectionToSimplePath", "Wall"}
LibHoming == {"SingleInputKey", "InputUnitTargetEnemy", "InputClickDirection",
              "HomingProjectileEntity", "ProjectilePassthrough",
              "AddDamageOnEntity0", "TerminateDamage"}

DriverLibraries == {LibTwin, LibFork, LibDead, LibBack, LibCross}
SearchLibraries == {LibTwin, LibFork, LibDead, LibMemo, LibBack, LibDamage}
HomingLibraries == {LibHoming}
StartTypes == {"PossiblyRepeatedInputKey", "InputKey", "Direction"}
EndTypes == {"GameEffect"}
Budgets == {MAX_INTERMEDIATE_UNBOUND_VARS, 1}

(***************************************************************************)
(* State.                                                                  *)
(*   lib, start_type, end_type, budget   the library and the arguments of  *)
(*        the running generate_valid_topsorted_node_dag call (budget b is  *)
(*        the predicate lambda types: len(types) <= b)                     *)
(*   pc        where the program is                                        *)
(*   stack     the active dfs calls, outermost first: the state each was   *)
(*             called with, the shuffled candidates it has not tried yet   *)
(*             and the candidate whose recursive call is running           *)
(*   c         the dict of memoize(dfs)                                    *)
(*   result    what generate_valid_topsorted_node_dag returned             *)
(*   expanded  how often the body of dfs ran for each state (history)      *)
(*   n_unique, n_output, seen_graph_hashes   generate_unique's locals      *)
(*   emitted   the graphs generate_unique has yielded, in order: each as   *)
(*             its structure and the hash it was yielded under             *)
(*   nodetypeslist, nodes, unused_vars   from_list_of_node_types' state    *)
(*   state, n_applied   all_from_list_of_node_types' list "state" (as a    *)
(*             bag: the order of a list built by iterating frozensets is   *)
(*             left open) and the number of node types its loop has done   *)
(*   prev_c    the dict of memoize(dfs) of the call before the running     *)
(*             one, as that call left it (history)                         *)
(*   decl, created   the arguments of a create_node_type call and the      *)
(*             node types it has yielded so far                            *)
(***************************************************************************)
VARIABLES lib, start_type, end_type, budget, pc, stack, c, result, expanded,
          n_unique, n_output, seen_graph_hashes, emitted,
          nodetypeslist, nodes, unused_vars,
          state, n_applied, prev_c, decl, created

searchArgs == <<lib, start_type, end_type, budget>>
searchVars == <<stack, c, result, expanded>>
driverVars == <<n_unique, n_output, seen_graph_hashes, emitted>>
assemblerVars == <<nodetypeslist, nodes, unused_vars>>
\* The variables of the operations that the driver and the search do not run.
otherVars == <<state, n_applied, prev_c, decl, created>>
vars == <<lib, start_type, end_type, budget, pc, stack, c, result, expanded,
          n_unique, n_output, seen_graph_hashes, emitted,
          nodetypeslist, nodes, unused_vars,
          state, n_applied, prev_c, decl, created>>

\* The operations that are not running hold nothing.
IdleOther ==
    /\ state = EmptyBag /\ n_applied = 0
    /\ prev_c = << >>
    /\ decl = Decl("", <<>>, <<>>, <<>>, <<>>) /\ created = <<>>

\* Python's None and a returned list.
None == [isNone |-> TRUE, list |-> <<>>]
List(l) == [isNone |-> FALSE, list |-> l]
\* Truth value of a dfs result in "if suffix:".
Truthy(r) == ~r.isNone /\ r.list # <<>>

(***************************************************************************)
(* generate_valid_topsorted_node_dag                                       *)
(***************************************************************************)
\* Mutant of goalstates: only the largest goal state.
goalstates_largest(endt) ==
    {[t \in {endt} |-> MAX_GAME_EFFECTS_PER_POWER - 1]}

\* goalstates: FrozenMultiset([end_type] * n) for n in range(MAX_GAME_EFFECTS_PER_POWER)
goalstates(endt) ==
    {FrozenMultiset([i \in 1..n |-> endt]) :
        n \in 0..(MAX_GAME_EFFECTS_PER_POWER - 1)}

\* Mutant of predicate: no state is turned down.
predicate_any(b, types) == TRUE

\* Mutant of predicate: a strict comparison.
predicate_strict(b, types) == BagCardinality(types) < b

\* predicate: lambda types: len(types) <= MAX_INTERMEDIATE_UNBOUND_VARS
predicate(b, types) == BagCardinality(types) <= b

\* Mutant of can_add_nodetype: the filter lets every node type through.
can_add_nodetype_always(nodetype, available_types) == TRUE

\* can_add_nodetype: required_types.issubset(available_types)
can_add_nodetype(nodetype, available_types) ==
    FrozenMultiset(INTYPES(nodetype)) \sqsubseteq available_types

\* Mutant of new_available_types: a set difference, which drops every copy
\* of a consumed type, where the code takes a multiset difference.
new_available_types_setdiff(available_types, nodetype) ==
    LET kept == {t \in BagToSet(available_types) :
                    t \notin Range(INTYPES(nodetype))}
    IN  [t \in kept |-> available_types[t]]
            (+) FrozenMultiset(OUTTYPES(nodetype))

\* new_available_types
new_available_types(available_types, nodetype) ==
    (available_types (-) FrozenMultiset(INTYPES(nodetype)))
        (+) FrozenMultiset(OUTTYPES(nodetype))

\* possible_nodetypes = filter(can_add_nodetype, ALL_NODETYPES); the shuffle
\* makes every order of trying them possible, so the frame keeps the set of
\* candidates not tried yet.
possible_nodetypes(library, available_types) ==
    {n \in library : can_add_nodetype(n, available_types)}

Frame(library, available_types) ==
    [available_types |-> available_types,
     todo |-> possible_nodetypes(library, available_types),
     nodetype |-> "-"]

Bump(cnt, s) ==
    IF s \in DOMAIN cnt
    THEN [cnt EXCEPT ![s] = IF @ < MaxExpand THEN @ + 1 ELSE @]
    ELSE (s :> 1) @@ cnt

\* Mutant of StartSearch: the memo of the call before is kept (a dfs
\* memoized once for all calls).
StartSearchSharedMemo(library, st) ==
    /\ stack' = <<[available_types |-> FrozenMultiset(<<st>>),
                   todo |-> {n \in library :
                                FrozenMultiset(NodeClass[n].INTYPES)
                                    \sqsubseteq FrozenMultiset(<<st>>)},
                   nodetype |-> "-"]>>
    /\ c' = c
    /\ result' = [isNone |-> TRUE, list |-> <<>>]
    /\ expanded' = (FrozenMultiset(<<st>>) :> 1)

\* The call dfs(FrozenMultiset([start_type])) of line 522, on a fresh memo.
StartSearch(library, st) ==
    /\ stack' = <<Frame(library, FrozenMultiset(<<st>>))>>
    /\ c' = << >>
    /\ result' = None
    /\ expanded' = (FrozenMultiset(<<st>>) :> 1)

\* What the dfs call at depth k returns once the innermost call, having
\* tried nodetype n, returns [n] + suffix: [nodetype] + (what depth k+1 returns).
RECURSIVE ReturnedAt(_, _, _, _)
ReturnedAt(stk, k, n, suffix) ==
    IF k = Len(stk) THEN <<n>> \o suffix
    ELSE <<stk[k].nodetype>> \o ReturnedAt(stk, k + 1, n, suffix)

\* memoize stores each returning call's value, the innermost first, so for a
\* state that is on the stack twice the outermost call's value stays.
MemoAfterReturn(memo, stk, n, suffix) ==
    LET onStack == {stk[k].available_types : k \in 1..Len(stk)}
        outer(s) == CHOOSE k \in 1..Len(stk) :
                        /\ stk[k].available_types = s
                        /\ \A j \in 1..(k - 1) : stk[j].available_types # s
    IN  [s \in (DOMAIN memo) \cup onStack |->
            IF s \in onStack THEN List(ReturnedAt(stk, outer(s), n, suffix))
            ELSE memo[s]]

\* Every active call returns a list: the search is over.
ReturnList(n, suffix) ==
    /\ c' = MemoAfterReturn(c, stack, n, suffix)
    /\ result' = List(ReturnedAt(stack, 1, n, suffix))
    /\ stack' = <<>>
    /\ pc' = "returned"
    /\ UNCHANGED expanded

\* The running call goes on with its next candidate.
NextCandidate(n) ==
    /\ stack' = [stack EXCEPT ![Len(stack)].todo = @ \ {n}]
    /\ UNCHANGED <<c, result, expanded, pc>>

\* One iteration of "for nodetype in possible_nodetypes" in the innermost
\* running call of dfs.
DfsTry(n) ==
    /\ pc = "dfs"
    /\ stack # <<>>
    /\ n \in stack[Len(stack)].todo
    /\ LET top == stack[Len(stack)]
           new == new_available_types(top.available_types, n)
       IN  IF new \in goalstates(end_type)
           THEN ReturnList(n, <<>>)
           ELSE IF predicate(budget, new)
           THEN IF new \in DOMAIN c
                THEN IF Truthy(c[new])
                     THEN ReturnList(n, c[new].list)
                     ELSE NextCandidate(n)
                ELSE IF Len(stack) >= MaxDepth
                THEN /\ pc' = "RuntimeError"
                     /\ UNCHANGED searchVars
                ELSE /\ stack' = Append(
                            [stack EXCEPT ![Len(stack)].todo = @ \ {n},
                                          ![Len(stack)].nodetype = n],
                            Frame(lib, new))
                     /\ expanded' = Bump(expanded, new)
                     /\ UNCHANGED <<c, result, pc>>
           ELSE NextCandidate(n)
    /\ UNCHANGED <<otherVars, searchArgs, driverVars, assemblerVars>>

\* The for loop of the innermost running call is over: it returns None,
\* memoize stores that, and the caller goes on ("if suffix" is false).
DfsExhausted ==
    /\ pc = "dfs"
    /\ stack # <<>>
    /\ stack[Len(stack)].todo = {}
    /\ c' = (stack[Len(stack)].available_types :> None) @@ c
    /\ stack' = SubSeq(stack, 1, Len(stack) - 1)
    /\ IF Len(stack) = 1
       THEN result' = None /\ pc' = "returned"
       ELSE UNCHANGED <<result, pc>>
    /\ UNCHANGED <<expanded, otherVars, searchArgs, driverVars, assemblerVars>>

NextSearch == (\E n \in NodeTypeNames : DfsTry(n)) \/ DfsExhausted

InitSearchIn(libraries) ==
    /\ lib \in libraries
    /\ start_type \in StartTypes
    /\ end_type \in EndTypes
    /\ budget \in Budgets
    /\ pc = "dfs"
    /\ stack = <<Frame(lib, FrozenMultiset(<<start_type>>))>>
    /\ c = << >>
    /\ result = None
    /\ expanded = (FrozenMultiset(<<start_type>>) :> 1)
    /\ n_unique = 0 /\ n_output = 0 /\ seen_graph_hashes = {} /\ emitted = <<>>
    /\ nodetypeslist = <<>> /\ nodes = <<>> /\ unused_vars = {}
    /\ IdleOther

InitSearch == InitSearchIn(SearchLibraries)
SpecSearch == InitSearch /\ [][NextSearch]_vars

InitHoming == InitSearchIn(HomingLibraries)
SpecHoming == InitHoming /\ [][NextSearch]_vars

\* One call of generate_valid_topsorted_node_dag after the other on the same
\* module, each with arguments of its own.
CallEndTypes == {"GameEffect", "SimplePath"}
CallAgain ==
    /\ pc = "returned"
    /\ \E st \in StartTypes, et \in CallEndTypes, b \in Budgets :
          /\ start_type' = st /\ end_type' = et /\ budget' = b
          /\ StartSearch(lib, st)
    /\ prev_c' = c
    /\ pc' = "dfs"
    /\ UNCHANGED <<lib, state, n_applied, decl, created,
                   driverVars, assemblerVars>>

InitCalls ==
    /\ lib \in SearchLibraries
    /\ start_type \in StartTypes
    /\ end_type \in CallEndTypes
    /\ budget \in Budgets
    /\ pc = "dfs"
    /\ stack = <<Frame(lib, FrozenMultiset(<<start_type>>))>>
    /\ c = << >>
    /\ result = None
    /\ expanded = (FrozenMultiset(<<start_type>>) :> 1)
    /\ n_unique = 0 /\ n_output = 0 /\ seen_graph_hashes = {} /\ emitted = <<>>
    /\ nodetypeslist = <<>> /\ nodes = <<>> /\ unused_vars = {}
    /\ IdleOther

NextCalls == NextSearch \/ CallAgain

SpecCalls == InitCalls /\ [][NextCalls]_vars

\* The library as shipped: every entry of ALL_NODETYPES.
LibShipped == {t.name : t \in Range(ALL_NODETYPES)}

\* The states the body of dfs(available_types) calls dfs with in some order
\* of its candidates: new_available_types of a candidate, where that is no
\* goal state (line 515) and the predicate holds of it (line 517).
called_from(library, endt, b, available_types) ==
    {new \in {new_available_types(available_types, n) :
                 n \in possible_nodetypes(library, available_types)} :
        new \notin goalstates(endt) /\ predicate(b, new)}

\* The states of visited and every state a chain of dfs calls reaches from
\* them.
RECURSIVE called_below(_, _, _, _)
called_below(library, endt, b, visited) ==
    LET further == UNION {called_from(library, endt, b, s) : s \in visited}
    IN  IF further \subseteq visited THEN visited
        ELSE called_below(library, endt, b, visited \cup further)

\* The states dfs is called with in some run of
\* generate_valid_topsorted_node_dag() on the shipped library, with the
\* default arguments.
ShippedStates ==
    called_below(LibShipped, "GameEffect", MAX_INTERMEDIATE_UNBOUND_VARS,
                 {FrozenMultiset(<<"PossiblyRepeatedInputKey">>)})


(***************************************************************************)
(* TypedValue, Node and PowerGraph.from_list_of_node_types.                *)
(* A node is identified by its place in creation order; a TypedValue by    *)
(* the node that made it (source) and its place in that node's out tuple.  *)
(***************************************************************************)
TypedValue(typ, source, index) ==
    [type |-> typ, description |-> "uninitialized",
     source |-> source, index |-> index]

\* Mutant of Node: one out value per format string, not per OUTTYPE.
Node_out_per_formatstring(k, nodetype, args) ==
    [cls |-> nodetype,
     args |-> args,
     out |-> LET outtypes == NodeClass[nodetype].OUTTYPES
                 m == IF Len(NodeClass[nodetype].FORMATSTRINGS) < Len(outtypes)
                      THEN Len(NodeClass[nodetype].FORMATSTRINGS)
                      ELSE Len(outtypes)
             IN  [i \in 1..m |->
                     [type |-> outtypes[i], description |-> "uninitialized",
                      source |-> k, index |-> i - 1]]]

\* Node.__init__ for the k-th node created: args are kept, one fresh
\* TypedValue per OUTTYPE is made, each with source = the node.
Node(k, nodetype, args) ==
    [cls |-> nodetype,
     args |-> args,
     out |-> [i \in 1..Len(OUTTYPES(nodetype)) |->
                 TypedValue(OUTTYPES(nodetype)[i], k, i - 1)]]

\* Mutant of select_one_arg: the chosen var stays among the unused ones.
select_one_arg_keep(state1, captured_intype) ==
    {<<Append(state1[1], var), state1[2]>> :
        var \in {v \in state1[2] : v.type = captured_intype}}

\* select_one_arg: every way to take one unused var of the wanted type.
select_one_arg(state1, captured_intype) ==
    {<<Append(state1[1], var), state1[2] \ {var}>> :
        var \in {v \in state1[2] : v.type = captured_intype}}

\* The loop over captured_nodetype.INTYPES in add_nodetype: flatmap keeps one
\* random element of the candidates, and random.choice of an empty list
\* raises IndexError.  The result is the set of possible outcomes.
RECURSIVE consumed_argsets(_, _)
consumed_argsets(intypes, state1) ==
    IF intypes = <<>> THEN {[error |-> FALSE, used_vars |-> state1[1],
                             inner_unused_vars |-> state1[2]]}
    ELSE LET candidates == select_one_arg(state1, Head(intypes))
         IN  IF candidates = {}
             THEN {[error |-> TRUE, used_vars |-> state1[1],
                    inner_unused_vars |-> state1[2]]}
             ELSE UNION {consumed_argsets(Tail(intypes), cand) :
                            cand \in candidates}

\* One iteration of "for nodetype in nodetypes": add_nodetype for the next
\* node type of the list.
AddNodetype ==
    /\ pc = "assemble"
    /\ Len(nodes) < Len(nodetypeslist)
    /\ LET k == Len(nodes) + 1
           captured_nodetype == nodetypeslist[k]
       IN  \E chosen \in consumed_argsets(INTYPES(captured_nodetype),
                                          <<<<>>, unused_vars>>) :
              IF chosen.error
              THEN /\ pc' = "IndexError"
                   /\ UNCHANGED <<nodes, unused_vars>>
              ELSE LET node == Node(k, captured_nodetype, chosen.used_vars)
                   IN  /\ nodes' = Append(nodes, node)
                       /\ unused_vars' =
                              chosen.inner_unused_vars \cup Range(node.out)
                       /\ pc' = "assemble"
    /\ UNCHANGED <<nodetypeslist, otherVars, searchArgs, searchVars, driverVars>>

\* "return (cls(nodes) for (nodes, _) in state)" of from_list_of_node_types,
\* called on its own.
ReturnGraph ==
    /\ pc = "assemble"
    /\ Len(nodes) = Len(nodetypeslist)
    /\ pc' = "returned_graph"
    /\ UNCHANGED <<assemblerVars, otherVars, searchArgs, searchVars, driverVars>>

(***************************************************************************)
(* PowerGraph.all_from_list_of_node_types.  Its lists are kept as bags of  *)
(* their elements.                                                         *)
(***************************************************************************)
RECURSIVE SetToSeq(_)
SetToSeq(s) ==
    IF s = {} THEN <<>>
    ELSE LET x == CHOOSE x \in s : TRUE IN <<x>> \o SetToSeq(s \ {x})

RECURSIVE BagSum(_)
BagSum(bags) ==
    IF bags = <<>> THEN EmptyBag ELSE Head(bags) (+) BagSum(Tail(bags))

\* flatmap: [j for i in seq for j in func(i)]; func is given as a function
\* on the elements of seq.
flatmap(func, seq) ==
    LET elements == SetToSeq(BagToSet(seq))
    IN  BagSum([k \in 1..Len(elements) |->
                   LET js == func[elements[k]]
                   IN  [j \in DOMAIN js |-> js[j] * seq[elements[k]]]])

\* The loop over captured_nodetype.INTYPES of add_nodetype, every element of
\* select_one_arg kept.
RECURSIVE all_consumed_argsets(_, _)
all_consumed_argsets(intypes, consumed) ==
    IF intypes = <<>> THEN consumed
    ELSE all_consumed_argsets(
             Tail(intypes),
             flatmap([state1 \in BagToSet(consumed) |->
                         SetToBag(select_one_arg(state1, Head(intypes)))],
                     consumed))

\* Mutant of all_add_nodetype: one of the consumed argument sets is kept, as
\* the flatmap of from_list_of_node_types does.
all_add_nodetype_one(state0, captured_nodetype) ==
    LET consumed == all_consumed_argsets(INTYPES(captured_nodetype),
                                         SetToBag({<<<<>>, state0[2]>>}))
    IN  IF consumed = EmptyBag THEN EmptyBag
        ELSE LET used == CHOOSE u \in BagToSet(consumed) : TRUE
                 node == Node(Len(state0[1]) + 1, captured_nodetype, used[1])
             IN  SetToBag({<<Append(state0[1], node),
                             used[2] \cup Range(node.out)>>})

\* add_nodetype of all_from_list_of_node_types: one new state per consumed
\* argument set.  state0 is a pair (nodes, unused_vars).
all_add_nodetype(state0, captured_nodetype) ==
    LET consumed == all_consumed_argsets(INTYPES(captured_nodetype),
                                         SetToBag({<<<<>>, state0[2]>>}))
    IN  flatmap([used \in BagToSet(consumed) |->
                    LET node == Node(Len(state0[1]) + 1, captured_nodetype,
                                     used[1])
                    IN  SetToBag({<<Append(state0[1], node),
                                    used[2] \cup Range(node.out)>>})],
                consumed)

\* One iteration of "for nodetype in nodetypes":
\* state = flatmap(add_nodetype, state)
AllAddNodetype ==
    /\ pc = "assemble_all"
    /\ n_applied < Len(nodetypeslist)
    /\ state' = flatmap([state0 \in BagToSet(state) |->
                            all_add_nodetype(state0,
                                             nodetypeslist[n_applied + 1])],
                        state)
    /\ n_applied' = n_applied + 1
    /\ UNCHANGED <<pc, assemblerVars, prev_c, decl, created,
                   searchArgs, searchVars, driverVars>>

\* "return (cls(nodes) for (nodes, _) in state)"
AllReturn ==
    /\ pc = "assemble_all"
    /\ n_applied = Len(nodetypeslist)
    /\ pc' = "returned_all"
    /\ UNCHANGED <<assemblerVars, otherVars, searchArgs, searchVars, driverVars>>

\* The lists of node types the assemblers are called with: [InKey] and up to
\* MaxSeq node types of AssemblerPool, the list of the docstring, and two
\* longer lists the search returns.
AssemblerPool ==
    {"RepeatInputKey", "SingleInputKey", "InputPerpendicularLine", "Wall"}
AssemblerInputs ==
    {<<InKey.name>> \o q :
        q \in UNION {[1..m -> AssemblerPool] : m \in 0..MaxSeq}}
    \cup {<<>>, <<TypeA.name, TypeB.name>>,
          <<InKey.name, "RepeatInputKey", "InputPerpendicularLine",
            "InputPerpendicularLine", "Wall", "Wall">>,
          <<InKey.name, "RepeatInputKey", "InputClickPosition",
            "InputClickDirection", "DirectionToSimplePath", "Wall">>}

InitAssemble ==
    /\ nodetypeslist \in AssemblerInputs
    /\ pc \in {"assemble", "assemble_all"}
    /\ nodes = <<>> /\ unused_vars = {}
    /\ state = SetToBag({<< <<>>, {} >>}) /\ n_applied = 0
    /\ prev_c = << >>
    /\ decl = Decl("", <<>>, <<>>, <<>>, <<>>) /\ created = <<>>
    /\ lib = {} /\ start_type = "PossiblyRepeatedInputKey"
    /\ end_type = "GameEffect" /\ budget = MAX_INTERMEDIATE_UNBOUND_VARS
    /\ stack = <<>> /\ c = << >> /\ result = None /\ expanded = << >>
    /\ n_unique = 0 /\ n_output = 0 /\ seen_graph_hashes = {} /\ emitted = <<>>

NextAssemble == AddNodetype \/ ReturnGraph \/ AllAddNodetype \/ AllReturn

SpecAssemble == InitAssemble /\ [][NextAssemble]_vars

(***************************************************************************)
(* create_node_type as a generator, called on its own.                     *)
(***************************************************************************)
\* The next "yield typ".
CreateYield ==
    /\ pc = "create"
    /\ Len(created) < Len(create_node_type(decl))
    /\ created' = Append(created, create_node_type(decl)[Len(created) + 1])
    /\ UNCHANGED <<pc, decl, state, n_applied, prev_c, assemblerVars,
                   searchArgs, searchVars, driverVars>>

\* The for loop over the powerset is over: StopIteration.
CreateDone ==
    /\ pc = "create"
    /\ Len(created) = Len(create_node_type(decl))
    /\ pc' = "created"
    /\ UNCHANGED <<assemblerVars, otherVars, searchArgs, searchVars, driverVars>>

OptionalPool == {"float", "Bool"}
CreateInputs ==
    {Decl(nodename, intypes, <<"Area">>, <<"{0}">>, optionalintypes) :
        nodename \in {"CircleAroundPoint", "Wall"},
        intypes \in {<<>>, <<"Position">>},
        optionalintypes \in UNION {[1..k -> OptionalPool] : k \in 0..MaxOptional}}

InitCreate ==
    /\ decl \in CreateInputs
    /\ created = <<>>
    /\ pc = "create"
    /\ state = EmptyBag /\ n_applied = 0 /\ prev_c = << >>
    /\ nodetypeslist = <<>> /\ nodes = <<>> /\ unused_vars = {}
    /\ lib = {} /\ start_type = "PossiblyRepeatedInputKey"
    /\ end_type = "GameEffect" /\ budget = MAX_INTERMEDIATE_UNBOUND_VARS
    /\ stack = <<>> /\ c = << >> /\ result = None /\ expanded = << >>
    /\ n_unique = 0 /\ n_output = 0 /\ seen_graph_hashes = {} /\ emitted = <<>>

NextCreate == CreateYield \/ CreateDone

SpecCreate == InitCreate /\ [][NextCreate]_vars

(***************************************************************************)
(* Node.bake.  A format string is kept with what string.Formatter.parse    *)
(* makes of it: its pieces of literal text, each followed by a positional  *)
(* field {k} (field = -1: no field follows).                               *)
(***************************************************************************)
Piece(literal_text, field) == [literal_text |-> literal_text, field |-> field]

parse ==
    ("" :> <<>>)
    @@ ("the user's character" :> <<Piece("the user's character", -1)>>)
    @@ ("the direction of the user's click" :>
            <<Piece("the direction of the user's click", -1)>>)
    @@ ("a line perpendicular to the player" :>
            <<Piece("a line perpendicular to the player", -1)>>)
    @@ ("where the user clicked" :> <<Piece("where the user clicked", -1)>>)
    @@ ("where the mouse moved before releasing" :>
            <<Piece("where the mouse moved before releasing", -1)>>)
    @@ ("the clicked enemy" :> <<Piece("the clicked enemy", -1)>>)
    @@ ("a toggle is held" :> <<Piece("a toggle is held", -1)>>)
    @@ ("a projectile that homes towards {0}" :>
            <<Piece("a projectile that homes towards ", 0)>>)
    @@ ("a projectile that travels along {0}" :>
            <<Piece("a projectile that travels along ", 0)>>)
    @@ ("all enemies hit by {0}" :> <<Piece("all enemies hit by ", 0)>>)
    @@ ("the first enemy hit by {0}" :>
            <<Piece("the first enemy hit by ", 0)>>)
    @@ ("the first two enemies hit by {0}" :>
            <<Piece("the first two enemies hit by ", 0)>>)
    @@ ("a circle centered on {0} with radius {1}" :>
            <<Piece("a circle centered on ", 0), Piece(" with radius ", 1)>>)
    @@ ("random directions when {0}" :>
            <<Piece("random directions when ", 0)>>)
    @@ ("the position of {0}" :> <<Piece("the position of ", 0)>>)
    @@ ("enemy entities in {0}" :> <<Piece("enemy entities in ", 0)>>)
    @@ ("towards {0}" :> <<Piece("towards ", 0)>>)
    @@ ("enemies hit by projectiles emitted {0}" :>
            <<Piece("enemies hit by projectiles emitted ", 0)>>)
    @@ ("a cloud that moves along {0}" :>
            <<Piece("a cloud that moves along ", 0)>>)
    @@ ("points along {0}" :> <<Piece("points along ", 0)>>)
    @@ ("a static cloud covering {0}" :>
            <<Piece("a static cloud covering ", 0)>>)
    @@ ("Stores a sequence of positions for simultaneous firing {0}" :>
            <<Piece("Stores a sequence of positions for simultaneous firing ",
                    0)>>)
    @@ ("Deal damage scaling with {1} to {0}" :>
            <<Piece("Deal damage scaling with ", 1), Piece(" to ", 0)>>)
    @@ ("Inflict a condition on {0} with intensity {1}" :>
            <<Piece("Inflict a condition on ", 0),
              Piece(" with intensity ", 1)>>)
    @@ ("Teleports {0} to {1}" :>
            <<Piece("Teleports ", 0), Piece(" to ", 1)>>)
    @@ ("A wall following {0}" :> <<Piece("A wall following ", 0)>>)
    @@ ("{0}" :> <<Piece("", 0)>>)

\* formatstring.format(*argdescriptions): a field {k} with no k-th argument
\* raises IndexError; arguments no field names are ignored.
RECURSIVE substitute(_, _)
substitute(pieces, argdescriptions) ==
    IF pieces = <<>> THEN ""
    ELSE Head(pieces).literal_text
            \o (IF Head(pieces).field >= 0
                THEN argdescriptions[Head(pieces).field + 1] ELSE "")
            \o substitute(Tail(pieces), argdescriptions)

format(formatstring, argdescriptions) ==
    LET pieces == parse[formatstring]
    IN  IF \E i \in 1..Len(pieces) : pieces[i].field >= Len(argdescriptions)
        THEN [error |-> TRUE, text |-> ""]
        ELSE [error |-> FALSE, text |-> substitute(pieces, argdescriptions)]

\* argdescriptions = [arg.description for arg in self.args]
argdescriptions_of(g, k) ==
    [a \in 1..Len(g[k].args) |-> g[k].args[a].description]

\* The out values of node k after bake: zip(self.out, self.FORMATSTRINGS)
\* sets one description after the other and stops where format raises.
baked_out(g, k) ==
    LET formatstrings == NodeClass[g[k].cls].FORMATSTRINGS
        zipped == IF Len(formatstrings) < Len(g[k].out)
                  THEN Len(formatstrings) ELSE Len(g[k].out)
        formatted == [i \in 1..zipped |->
                         format(formatstrings[i], argdescriptions_of(g, k))]
        raised == {i \in 1..zipped : formatted[i].error}
    IN  [error |-> raised # {},
         out |-> [i \in 1..Len(g[k].out) |->
                     IF i <= zipped /\ \A j \in raised : i < j
                     THEN [g[k].out[i] EXCEPT !.description = formatted[i].text]
                     ELSE g[k].out[i]]]

\* A TypedValue as it is once node k has the out values out: the args of a
\* node and the pool of unused values hold the very objects of the out
\* tuples (self.args = args, line 127), so a value made by node k is seen
\* with the description bake gave it wherever it is held.
as_held(var, k, out) ==
    IF var.source = k THEN out[var.index + 1] ELSE var

\* node.bake() on node k of a graph from_list_of_node_types has returned:
\* the descriptions of the out values of node k are set, and with them what
\* every node bound to one of these values has among its args.
Bake(k) ==
    /\ pc = "returned_graph"
    /\ k \in 1..Len(nodes)
    /\ LET after == baked_out(nodes, k)
       IN  /\ nodes' =
                 [j \in 1..Len(nodes) |->
                     [cls  |-> nodes[j].cls,
                      args |-> [a \in 1..Len(nodes[j].args) |->
                                   as_held(nodes[j].args[a], k, after.out)],
                      out  |-> IF j = k THEN after.out ELSE nodes[j].out]]
           /\ unused_vars' = {as_held(var, k, after.out) : var \in unused_vars}
           /\ pc' = IF after.error THEN "IndexError" ELSE pc
    /\ UNCHANGED <<nodetypeslist, otherVars, searchArgs, searchVars,
                   driverVars>>

\* Lists of node types the sample assembler can bind.
BakeInputs ==
    {<<InKey.name, "SingleInputKey", "InputPerpendicularLine", "Wall">>,
     <<InKey.name, "RepeatInputKey", "InputClickPosition",
       "InputClickDirection", "DirectionToSimplePath", "Wall">>,
     <<InKey.name, "SingleInputKey", "InputPerpendicularLine",
       "DumbProjectile", "ProjectileCollideFirst", "AddDamageOnEntity0",
       "TerminateDamage">>,
     <<InKey.name, "SingleInputKey", "InputClickPosition",
       "CircleAroundPoint0", "EntitiesInArea", "ConditionOnEntity0",
       "TerminateCondition">>}

InitBake ==
    /\ pc = "assemble"
    /\ nodetypeslist \in BakeInputs
    /\ nodes = <<>> /\ unused_vars = {}
    /\ lib = {} /\ start_type = "PossiblyRepeatedInputKey"
    /\ end_type = "GameEffect" /\ budget = MAX_INTERMEDIATE_UNBOUND_VARS
    /\ stack = <<>> /\ c = << >> /\ result = None /\ expanded = << >>
    /\ n_unique = 0 /\ n_output = 0 /\ seen_graph_hashes = {} /\ emitted = <<>>
    /\ IdleOther

NextBake ==
    \/ AddNodetype
    \/ ReturnGraph
    \/ \E k \in 1..Len(nodes) : Bake(k)

SpecBake == InitBake /\ [][NextBake]_vars

(***************************************************************************)
(* PowerGraph.__hash__.  The digest of xxh64 is the data fed to it.        *)
(***************************************************************************)
\* Python's order of the class names (str comparison), as a ranking.
ClassNamesSorted == <<
    "Accumulator", "AddDamageOnEntity0", "AddDamageOnEntity1",
    "CircleAroundPoint0", "CircleAroundPoint1", "CloudFollowingPath",
    "ConditionOnEntity0", "ConditionOnEntity1", "DirectionToSimplePath",
    "DumbProjectile", "EmitRandomDirections", "EntitiesInArea",
    "HomingProjectileEntity", "InKey", "InputClickDirection",
    "InputClickDragReleaseDirection", "InputClickPosition",
    "InputPerpendicularLine", "InputToggle", "InputUnitTargetEnemy",
    "PathToArea", "PathToProjectile", "PositionFromEntity",
    "ProjectileCollideFirst", "ProjectileCollideFirstTwo",
    "ProjectilePassthrough", "PulseAlongPath", "RepeatInputKey",
    "SingleInputKey", "TeleportPlayer", "TerminateCondition",
    "TerminateDamage", "TypeA", "TypeB", "Wall" >>
ClassNameRank ==
    [name \in Range(ClassNamesSorted) |->
        CHOOSE i \in 1..Len(ClassNamesSorted) : ClassNamesSorted[i] = name]

\* canonical_node_order: sorted(nodelist, key=class name).  sorted is stable:
\* the nodes come out class by class in ascending order of the class name, the
\* nodes of one class in the order nodelist has them.  nodelist is a sequence
\* of node identities of the graph g.
canonical_node_order(g, nodelist) ==
    LET key(k) == ClassNameRank[g[k].cls]
        RECURSIVE ascending(_)
        ascending(keys) ==
            IF keys = {} THEN <<>>
            ELSE LET least == CHOOSE r \in keys : \A q \in keys : r <= q
                 IN  SelectSeq(nodelist, LAMBDA k : key(k) = least)
                         \o ascending(keys \ {least})
    IN  ascending({key(k) : k \in Range(nodelist)})

\* hash_node: xxh64(class name), updated with str(hash_arg(arg)) per arg.
\* hash_arg: xxh64(str(i) + str(hash_node(var.source))), i the index of var
\* in var.source.out.
RECURSIVE hash_node(_, _)
\* Mutant of hash_arg: the index of the value in its source's out tuple is
\* left out.
hash_arg_noindex(g, var) == <<hash_node(g, var.source)>>

hash_arg(g, var) == <<var.index, hash_node(g, var.source)>>
hash_node(g, k) ==
    <<g[k].cls, [a \in 1..Len(g[k].args) |-> hash_arg(g, g[k].args[a])]>>

\* The dict of memoize(hash_node) once every node of g has been hashed.
hash_node_memo(g) == [k \in 1..Len(g) |-> hash_node(g, k)]

\* The last lines of __hash__: xxh64(), updated with str(hash_node(node)) for
\* node in order, the result of canonical_node_order.
digest_in_canonical_order(memo, order) ==
    [p \in 1..Len(order) |-> memo[order[p]]]

\* PowerGraph.__hash__ of the graph whose nodes g are iterated in the order
\* nodelist (self.nodes is a frozenset of objects hashed by identity: any
\* order of the nodes can be the iteration order).
PowerGraphHash(g, nodelist) ==
    digest_in_canonical_order(hash_node_memo(g),
                              canonical_node_order(g, nodelist))

StorageOrders(g) == Permutations(1..Len(g))

\* hash(powergraph) for a graph just built: one of these values.
PossibleHashes(g) ==
    LET memo == hash_node_memo(g)
    IN  {digest_in_canonical_order(memo, order) :
            order \in {canonical_node_order(g, nodelist) :
                          nodelist \in StorageOrders(g)}}

\* A graph without the identities of its objects: each node as its class and,
\* per argument, the index of the value in its source's out tuple and the
\* source node, given the same way.
RECURSIVE NodeStructure(_, _)
NodeStructure(g, k) ==
    [cls |-> g[k].cls,
     args |-> [a \in 1..Len(g[k].args) |->
                  [index |-> g[k].args[a].index,
                   source |-> NodeStructure(g, g[k].args[a].source)]]]
Structure(g) == {NodeStructure(g, k) : k \in 1..Len(g)}

(***************************************************************************)
(* PowerGraphGenerator.generate_unique                                     *)
(***************************************************************************)
\* "while n_output < n_unique": call generate_valid_topsorted_node_dag()
\* with its default arguments, or leave the loop.
WhileTest ==
    /\ pc = "while"
    /\ IF n_output < n_unique
       THEN /\ pc' = "dfs"
            /\ StartSearch(lib, start_type)
       ELSE /\ pc' = "done"
            /\ UNCHANGED searchVars
    /\ UNCHANGED <<otherVars, searchArgs, driverVars, assemblerVars>>

\* nodetypeslist = [InKey] + (the search's result): list + None is a TypeError.
\* The call is over: its memo and its result are no longer held by anything.
ConcatInKey ==
    /\ pc = "returned"
    /\ IF result.isNone
       THEN /\ pc' = "TypeError"
            /\ UNCHANGED assemblerVars
       ELSE /\ nodetypeslist' = <<InKey.name>> \o result.list
            /\ nodes' = <<>>
            /\ unused_vars' = {}
            /\ pc' = "assemble"
    /\ stack' = <<>> /\ c' = << >> /\ result' = None /\ expanded' = << >>
    /\ UNCHANGED <<otherVars, searchArgs, driverVars>>

\* Mutant of the membership test: every graph counts as new.
SeenCheckAlways(graphhash, seen) == TRUE

\* "if graphhash not in seen_graph_hashes"
SeenCheck(graphhash, seen) == graphhash \notin seen

\* The body of "for powergraph in from_list_of_node_types(nodetypeslist)" for
\* the one graph it gives (predicate is lambda pg: True), up to the yield of
\* line 534: a new hash is added and the graph is handed to the consumer,
\* the generator staying suspended with its locals; a seen hash ends the
\* loop, and the builder's state is dropped with it.
HashAndYield ==
    /\ pc = "assemble"
    /\ Len(nodes) = Len(nodetypeslist)
    /\ \E graphhash \in PossibleHashes(nodes) :
          IF SeenCheck(graphhash, seen_graph_hashes)
          THEN /\ seen_graph_hashes' = seen_graph_hashes \cup {graphhash}
               /\ emitted' = Append(emitted, [graph |-> Structure(nodes),
                                              hash |-> graphhash])
               /\ pc' = "yield"
               /\ UNCHANGED assemblerVars
          ELSE /\ nodetypeslist' = <<>> /\ nodes' = <<>> /\ unused_vars' = {}
               /\ pc' = "while"
               /\ UNCHANGED <<seen_graph_hashes, emitted>>
    /\ UNCHANGED <<n_unique, n_output, otherVars, searchArgs, searchVars>>

\* The consumer asks for another graph: the generator goes on after the
\* yield with "n_output += 1" (line 535); the for loop has no further graph.
ResumeAfterYield ==
    /\ pc = "yield"
    /\ n_output' = n_output + 1
    /\ nodetypeslist' = <<>> /\ nodes' = <<>> /\ unused_vars' = {}
    /\ pc' = "while"
    /\ UNCHANGED <<n_unique, seen_graph_hashes, emitted, otherVars,
                   searchArgs, searchVars>>

Init ==
    /\ lib \in DriverLibraries
    /\ start_type = "PossiblyRepeatedInputKey"
    /\ end_type = "GameEffect"
    /\ budget = MAX_INTERMEDIATE_UNBOUND_VARS
    /\ n_unique \in 0..MaxN
    /\ n_output = 0 /\ seen_graph_hashes = {} /\ emitted = <<>>
    /\ pc = "while"
    /\ stack = <<>> /\ c = << >> /\ result = None /\ expanded = << >>
    /\ nodetypeslist = <<>> /\ nodes = <<>> /\ unused_vars = {}
    /\ IdleOther

Next ==
    \/ WhileTest
    \/ \E n \in NodeTypeNames : DfsTry(n)
    \/ DfsExhausted
    \/ ConcatInKey
    \/ AddNodetype
    \/ HashAndYield
    \/ ResumeAfterYield

Spec == Init /\ [][Next]_vars

\* The steps the generator takes by itself, once asked for a graph.
GeneratorStep ==
    \/ WhileTest
    \/ \E n \in NodeTypeNames : DfsTry(n)
    \/ DfsExhausted
    \/ ConcatInKey
    \/ AddNodetype
    \/ HashAndYield

\* The generator never stops taking steps while it can, and it is drained
\* by a consumer that asks for the next graph after each one, as the for
\* loop of main does (line 577).
FairSpec == Spec /\ WF_vars(GeneratorStep) /\ WF_vars(ResumeAfterYield)

\* The same, with fair random choices: random.shuffle puts every candidate
\* first again and again, and random.choice binds every value again and
\* again, wherever they can.  Nothing of the kind holds of the iteration
\* order of a frozenset, which no random source decides.
Binds(typ, source, index) ==
    /\ AddNodetype
    /\ Len(nodes') > Len(nodes)
    /\ \E a \in 1..Len(nodes'[Len(nodes')].args) :
          LET var == nodes'[Len(nodes')].args[a]
          IN  var.type = typ /\ var.source = source /\ var.index = index
ChoiceValues ==
    {<<"InputKey", 2, 0>>, <<"InputKey", 2, 1>>, <<"SimplePath", 3, 0>>,
     <<"SimplePath", 4, 0>>, <<"SimplePath", 5, 0>>}
InitFairChoice ==
    /\ lib = LibMemo
    /\ start_type = "PossiblyRepeatedInputKey"
    /\ end_type = "GameEffect"
    /\ budget = MAX_INTERMEDIATE_UNBOUND_VARS
    /\ n_unique \in 0..MaxN
    /\ n_output = 0 /\ seen_graph_hashes = {} /\ emitted = <<>>
    /\ pc = "while"
    /\ stack = <<>> /\ c = << >> /\ result = None /\ expanded = << >>
    /\ nodetypeslist = <<>> /\ nodes = <<>> /\ unused_vars = {}
    /\ IdleOther
FairChoiceSpec ==
    /\ InitFairChoice /\ [][Next]_vars
    /\ WF_vars(GeneratorStep) /\ WF_vars(ResumeAfterYield)
    /\ \A n \in LibMemo : SF_vars(DfsTry(n))
    /\ \A v \in ChoiceValues : SF_vars(Binds(v[1], v[2], v[3]))

(***************************************************************************)
(* Reference definitions for the properties: the type algebra written      *)
(* with the bag operators directly.                                        *)
(***************************************************************************)
Addable(library, s) == {n \in library : FrozenMultiset(INTYPES(n)) \sqsubseteq s}
Applied(s, n) ==
    (s (-) FrozenMultiset(INTYPES(n))) (+) FrozenMultiset(OUTTYPES(n))

\* The states reachable from the states of visited through non-goal states
\* of at most b values.
RECURSIVE Explored(_, _, _, _)
Explored(library, endt, b, visited) ==
    LET further == {t \in UNION {{Applied(s, n) : n \in Addable(library, s)} :
                                     s \in visited} :
                       /\ t \notin goalstates(endt)
                       /\ BagCardinality(t) <= b}
    IN  IF further \subseteq visited THEN visited
        ELSE Explored(library, endt, b, visited \cup further)

\* A goal state is reachable from {st} by addable node types, every state on
\* the way but the last holding at most b values.
GoalReachable(library, st, endt, b) ==
    \E s \in Explored(library, endt, b, {FrozenMultiset(<<st>>)}) :
        \E n \in Addable(library, s) : Applied(s, n) \in goalstates(endt)

\* state_i = (state_{i-1} - INTYPES(d_i)) + OUTTYPES(d_i) is defined at every
\* step of seq, started in available, and ends in a goal state.
RECURSIVE FoldsToGoal(_, _, _)
FoldsToGoal(seq, available, endt) ==
    IF seq = <<>> THEN available \in goalstates(endt)
    ELSE /\ FrozenMultiset(INTYPES(Head(seq))) \sqsubseteq available
         /\ FoldsToGoal(Tail(seq), Applied(available, Head(seq)), endt)

\* Every sequence of addable node types that leads from s to a goal state
\* through non-goal states of at most b values (for a library in which no
\* state reaches itself).
RECURSIVE ValidSequences(_, _, _, _)
ValidSequences(library, endt, b, s) ==
    UNION {LET t == Applied(s, n)
           IN  IF t \in goalstates(endt) THEN {<<n>>}
               ELSE IF BagCardinality(t) <= b
               THEN {<<n>> \o q : q \in ValidSequences(library, endt, b, t)}
               ELSE {}
           : n \in Addable(library, s)}

\* Every graph from_list_of_node_types can build from nodetypes.
RECURSIVE Assemblies(_, _, _)
Assemblies(nodetypes, g, unused) ==
    IF Len(g) = Len(nodetypes) THEN {g}
    ELSE UNION {LET node == Node(Len(g) + 1, nodetypes[Len(g) + 1],
                                 chosen.used_vars)
                IN  Assemblies(nodetypes, Append(g, node),
                               chosen.inner_unused_vars \cup Range(node.out))
                : chosen \in {o \in consumed_argsets(
                                        INTYPES(nodetypes[Len(g) + 1]),
                                        <<<<>>, unused>>) : ~o.error}}

\* The hashes a generate_unique session over the library can see.
ProducibleHashes ==
    [l \in DriverLibraries \cup {LibMemo} |->
        UNION {PossibleHashes(g) :
                 g \in UNION {Assemblies(<<InKey.name>> \o q, <<>>, {}) :
                                q \in ValidSequences(l, "GameEffect",
                                        MAX_INTERMEDIATE_UNBOUND_VARS,
                                        FrozenMultiset(<<"PossiblyRepeatedInputKey">>))}}]

\* The graphs a generate_unique session over the library can build, each as
\* its structure and the hashes it can be given.
ProducibleGraphs ==
    [l \in DriverLibraries |->
        {<<Structure(g), PossibleHashes(g)>> :
            g \in UNION {Assemblies(<<InKey.name>> \o q, <<>>, {}) :
                           q \in ValidSequences(l, "GameEffect",
                                   MAX_INTERMEDIATE_UNBOUND_VARS,
                                   FrozenMultiset(<<"PossiblyRepeatedInputKey">>))}}]

GraphBuilt == pc = "assemble" /\ nodes # <<>> /\ Len(nodes) = Len(nodetypeslist)
Stopped == pc \in {"done", "TypeError", "IndexError", "RuntimeError",
                   "GenerationExhausted"}

(***************************************************************************)
(* Properties.                                                             *)
(***************************************************************************)

\* C1: the hash of a graph does not depend on the order its nodes are stored
\* in: every storage order of a built graph gives the hash that creation
\* order gives.  The code does not keep this (two nodes of one class are
\* combined in storage order).
C1_HashOrderInvariant ==
    GraphBuilt =>
        \A nodelist \in StorageOrders(nodes) :
            PowerGraphHash(nodes, nodelist)
                = PowerGraphHash(nodes, [i \in 1..Len(nodes) |-> i])

\* C2: at every point of a session the graphs yielded so far have pairwise
\* distinct hashes, there are never more than n_unique of them, and the
\* session is done only with exactly n_unique of them.
C2_DistinctAndExact ==
    /\ \A i, j \in 1..Len(emitted) :
          i # j => emitted[i].hash # emitted[j].hash
    /\ Len(emitted) <= n_unique
    /\ pc = "done" => Len(emitted) = n_unique
C2_Witness == pc = "done" /\ n_unique = 3 /\ Len(emitted) = 3

\* C3: no two graphs yielded in a session have the same structure.  The
\* code does not keep this, because of the order dependence of C1.
C3_NoTwoSameStructure ==
    \A i, j \in 1..Len(emitted) :
        i # j => emitted[i].graph # emitted[j].graph

\* C4: assembling [InKey] + (a returned sequence) never fails to bind an
\* argument: whatever was bound before, no way of choosing the arguments of
\* the next node type runs out of unused values of a required type.
C4_BindingNeverFails ==
    /\ pc # "IndexError"
    /\ (pc = "assemble" /\ Len(nodes) < Len(nodetypeslist)) =>
          \A o \in consumed_argsets(INTYPES(nodetypeslist[Len(nodes) + 1]),
                                    <<<<>>, unused_vars>>) : ~o.error
C4_Witness ==
    /\ GraphBuilt
    /\ \E k \in 1..Len(nodes) : Len(nodes[k].args) = 2
    /\ \E i, j \in 1..Len(emitted) : i # j

\* C5: a returned sequence folds from {start_type} with every node type's
\* INTYPES a sub-multiset of the state it is applied to, and ends in a
\* goal state.
C5_ReturnedSequenceFolds ==
    (pc = "returned" /\ ~result.isNone) =>
        FoldsToGoal(result.list, FrozenMultiset(<<start_type>>), end_type)
C5_Witness ==
    /\ pc = "returned" /\ ~result.isNone /\ Len(result.list) >= 5
    /\ \E s \in DOMAIN c : c[s].isNone

\* C6: the search returns, and returns None exactly when no goal state is
\* reachable within the budget, in whatever order the candidates are tried.
C6_NoneIffUnreachable ==
    /\ pc # "RuntimeError"
    /\ pc = "returned" =>
          (result.isNone <=> ~GoalReachable(lib, start_type, end_type, budget))
C6_Witness ==
    /\ pc = "returned" /\ result.isNone
    /\ Cardinality(DOMAIN c) >= 3

\* C7: the search terminates, the body of dfs running at most once for each
\* state, also in a library in which a state reaches itself.  The code does
\* not keep this: memoize stores a state only when its call returns.
C7_ExpandedAtMostOnce ==
    /\ \A s \in DOMAIN expanded : expanded[s] <= 1
    /\ pc # "RuntimeError"

\* C8: a session asked for more graphs than there are producible hashes
\* stops (with an exhaustion error) instead of retrying forever.  The code
\* retries forever.
C8_StopsWhenExhausted ==
    (n_unique > Cardinality(ProducibleHashes[lib])) => <>Stopped

\* C9: with fair random choices in the search and in the assembler, a
\* session asked for no more graphs than there are producible hashes yields
\* its n_unique-th graph and is done.  The code does not keep this where the
\* producible hashes outnumber the producible structures (C1).
C9_EventuallyDone ==
    (n_unique <= Cardinality(ProducibleHashes[lib])) => <>(pc = "done")

\* C10: a search that returns None is followed by a retry that leaves the
\* seen hashes and the count alone.  The code raises TypeError instead.
C10_NoneIsRetried ==
    [][(pc = "returned" /\ result.isNone) =>
          /\ pc' \in {"while", "dfs"}
          /\ UNCHANGED <<seen_graph_hashes, n_output, emitted>>]_vars

\* The types of the unused values suffice for every node type of the list,
\* one after the other.
RECURSIVE Bindable(_, _)
Bindable(nodetypes, available) ==
    \/ nodetypes = <<>>
    \/ /\ FrozenMultiset(INTYPES(Head(nodetypes))) \sqsubseteq available
       /\ Bindable(Tail(nodetypes), Applied(available, Head(nodetypes)))

\* C11: an assembly of a list in which some node type finds no unused value
\* of a type it needs ends with an error, in both modes: it does not return.
\* The code does not keep this in the exhaustive mode, which returns no graph.
C11_DeadBindingRaises ==
    pc \in {"returned_graph", "returned_all"} =>
        Bindable(nodetypeslist, EmptyBag)

\* The elements of s at the positions P, in the order of s.
SubSeqAt(s, P) ==
    [i \in 1..Cardinality(P) |->
        s[CHOOSE p \in P : Cardinality({q \in P : q < p}) = i - 1]]

\* C12: create_node_type with k optional input types yields 2^k node types
\* with pairwise different names, one for each subset of the positions of
\* the optional input types, INTYPES being the required input types followed
\* by the chosen optional ones in their order; with two optional input types
\* the INTYPES lengths are base, base+1, base+1, base+2; with none, the one
\* node type yielded has the name as given.
C12_OnePerSubset ==
    LET k == Len(decl.optionalintypes)
        base == Len(decl.intypes)
        suffix(i) == SubSeq(created[i].INTYPES, base + 1,
                            Len(created[i].INTYPES))
    IN  /\ \A i, j \in 1..Len(created) :
              i # j => created[i].name # created[j].name
        /\ \A i \in 1..Len(created) :
              SubSeq(created[i].INTYPES, 1, base) = decl.intypes
        /\ pc = "created" =>
              /\ Len(created) = 2 ^ k
              /\ \A P \in SUBSET (1..k) :
                    Cardinality({i \in 1..Len(created) :
                                    suffix(i) = SubSeqAt(decl.optionalintypes, P)})
                    = Cardinality({Q \in SUBSET (1..k) :
                                    SubSeqAt(decl.optionalintypes, Q)
                                        = SubSeqAt(decl.optionalintypes, P)})
              /\ k = 2 =>
                    [i \in 1..4 |-> Len(created[i].INTYPES)]
                        = <<base, base + 1, base + 1, base + 2>>
              /\ k = 0 => /\ Len(created) = 1
                          /\ created[1].name = decl.nodename
C12_Witness ==
    /\ pc = "created"
    /\ Len(decl.optionalintypes) = 2
    /\ decl.optionalintypes[1] # decl.optionalintypes[2]
    /\ decl.intypes # <<>>
    /\ Len(created) = 4

\* C13: a graph the session has built and a graph the generator can produce
\* that differ in their node types or in their wiring have no hash in
\* common, whatever order their nodes are stored in.
C13_DifferentGraphsDifferentHashes ==
    GraphBuilt =>
        \A other \in ProducibleGraphs[lib] :
            other[1] # Structure(nodes) =>
                other[2] \cap PossibleHashes(nodes) = {}
C13_Witness ==
    /\ GraphBuilt
    /\ lib = LibCross
    /\ \E i \in 1..Len(emitted) :
          /\ emitted[i].graph # Structure(nodes)
          /\ {n.cls : n \in emitted[i].graph} = {n.cls : n \in Structure(nodes)}

\* A goal state is reachable from the state s the way GoalReachable says.
GoalReachableFrom(library, s, endt, b) ==
    \E t \in Explored(library, endt, b, {s}) :
        \E n \in Addable(library, t) : Applied(t, n) \in goalstates(endt)

\* C14: the memo a call consults holds outcomes of that call only: every
\* entry is an outcome for the arguments of the running call (None for a
\* state no goal state of this call is reachable from, a list that leads
\* from the state to a goal state of this call otherwise), and so is the
\* result, whatever calls were made before.
C14_MemoScopedToCall ==
    /\ \A s \in DOMAIN c :
          IF c[s].isNone
          THEN ~GoalReachableFrom(lib, s, end_type, budget)
          ELSE FoldsToGoal(c[s].list, s, end_type)
    /\ pc = "returned" =>
          IF result.isNone
          THEN ~GoalReachable(lib, start_type, end_type, budget)
          ELSE FoldsToGoal(result.list, FrozenMultiset(<<start_type>>),
                           end_type)
C14_Witness ==
    /\ pc = "returned"
    /\ \E s \in (DOMAIN prev_c) \cap (DOMAIN c) :
          prev_c[s].isNone # c[s].isNone

\* The state after the first m node types of seq, from the state available.
RECURSIVE StateAfter(_, _, _)
StateAfter(seq, m, available) ==
    IF m = 0 THEN available
    ELSE Applied(StateAfter(seq, m - 1, available), seq[m])

\* C15: dfs is never called on a state that holds more values than the
\* budget allows (the start state apart, which the caller passes), and the
\* state after every non-empty proper prefix of a returned sequence holds at
\* most that many.
C15_WithinBudget ==
    /\ \A k \in 2..Len(stack) :
          BagCardinality(stack[k].available_types) <= budget
    /\ \A s \in (DOMAIN expanded) \ {FrozenMultiset(<<start_type>>)} :
          BagCardinality(s) <= budget
    /\ (pc = "returned" /\ ~result.isNone) =>
          \A m \in 1..(Len(result.list) - 1) :
              BagCardinality(StateAfter(result.list, m,
                                        FrozenMultiset(<<start_type>>)))
                  <= budget
C15_Witness ==
    /\ pc = "returned" /\ ~result.isNone /\ Len(result.list) >= 3
    /\ \E m \in 0..(Len(result.list) - 1) :
          LET s == StateAfter(result.list, m, FrozenMultiset(<<start_type>>))
          IN  \E n \in Addable(lib, s) :
                  BagCardinality(Applied(s, n)) > budget

\* A goal state: nothing but values of the end type, fewer than
\* MAX_GAME_EFFECTS_PER_POWER of them.
IsGoal(s, endt) ==
    /\ BagToSet(s) \subseteq {endt}
    /\ BagCardinality(s) < MAX_GAME_EFFECTS_PER_POWER

\* C16: the search stops at the first goal state: dfs is never called on a
\* goal state, a returned sequence ends in a goal state and the state after
\* every non-empty proper prefix of it is no goal state.
C16_StopsAtFirstGoal ==
    /\ \A k \in 2..Len(stack) : ~IsGoal(stack[k].available_types, end_type)
    /\ (pc = "returned" /\ ~result.isNone) =>
          LET start == FrozenMultiset(<<start_type>>)
              n == Len(result.list)
          IN  /\ n > 0
              /\ IsGoal(StateAfter(result.list, n, start), end_type)
              /\ \A m \in 1..(n - 1) :
                    ~IsGoal(StateAfter(result.list, m, start), end_type)
C16_Witness ==
    /\ pc = "returned" /\ ~result.isNone
    /\ LET start == FrozenMultiset(<<start_type>>)
           n == Len(result.list)
       IN  /\ BagCardinality(StateAfter(result.list, n, start)) = 2
           /\ \E m \in 1..(n - 1) :
                 end_type \in BagToSet(StateAfter(result.list, m, start))

\* The places (node, argument position) of the graph g.
ArgPlaces(g) ==
    UNION {{<<k, a>> : a \in 1..Len(g[k].args)} : k \in 1..Len(g)}

\* In g every bound value is a value of the out tuple of a node of g, no two
\* nodes have a value of their out tuples in common, and no value is bound
\* at two places.
WiredOnce(g) ==
    /\ \A p \in ArgPlaces(g) :
          LET var == g[p[1]].args[p[2]]
          IN  /\ var.source \in 1..Len(g)
              /\ var.index + 1 \in 1..Len(g[var.source].out)
              /\ g[var.source].out[var.index + 1] = var
    /\ \A k, j \in 1..Len(g) :
          k # j => Range(g[k].out) \cap Range(g[j].out) = {}
    /\ \A p, q \in ArgPlaces(g) :
          p # q => g[p[1]].args[p[2]] # g[q[1]].args[q[2]]

\* The values bound in g.
BoundIn(g) == {g[p[1]].args[p[2]] : p \in ArgPlaces(g)}

\* C17: in every graph either assembler builds, finished or not, a value is
\* in the out tuple of one node only and is bound at most once, and a bound
\* value is no longer among the unused ones.
C17_ValuesBoundOnce ==
    /\ pc \in {"assemble", "returned_graph"} =>
          WiredOnce(nodes) /\ BoundIn(nodes) \cap unused_vars = {}
    /\ pc \in {"assemble_all", "returned_all"} =>
          \A st \in BagToSet(state) :
              WiredOnce(st[1]) /\ BoundIn(st[1]) \cap st[2] = {}
C17_Witness ==
    /\ pc = "returned_all"
    /\ BagCardinality(state) = 4
    /\ \A st \in BagToSet(state) : Cardinality(BoundIn(st[1])) = 5

\* The values node type k of the graph g could bind at position a: the
\* values of the wanted type made by earlier nodes and not bound before.
Bindables(g, nodetypes, k, a) ==
    {v \in UNION {Range(g[j].out) : j \in 1..(k - 1)} :
        /\ v.type = INTYPES(nodetypes[k])[a]
        /\ \A p \in ArgPlaces(g) :
              (p[1] < k \/ (p[1] = k /\ p[2] < a)) => g[p[1]].args[p[2]] # v}

\* C18: all_from_list_of_node_types yields every graph once: the graphs are
\* graphs of the list, each argument bound to a value the node type could
\* bind; for every graph yielded and every other value a node type could
\* have bound at one of its positions, a graph that differs from there on
\* is yielded too; there is a graph whenever the types suffice; and the
\* list of the docstring gives both wirings.
C18_EveryBindingOnce ==
    pc = "returned_all" =>
        /\ \A st \in BagToSet(state) :
              /\ state[st] = 1
              /\ Len(st[1]) = Len(nodetypeslist)
              /\ \A k \in 1..Len(st[1]) :
                    /\ st[1][k].cls = nodetypeslist[k]
                    /\ Len(st[1][k].args) = Len(INTYPES(nodetypeslist[k]))
                    /\ \A a \in 1..Len(st[1][k].args) :
                          /\ st[1][k].args[a]
                                \in Bindables(st[1], nodetypeslist, k, a)
                          /\ \A v \in Bindables(st[1], nodetypeslist, k, a) :
                                \E other \in BagToSet(state) :
                                    /\ SubSeq(other[1], 1, k - 1)
                                           = SubSeq(st[1], 1, k - 1)
                                    /\ SubSeq(other[1][k].args, 1, a - 1)
                                           = SubSeq(st[1][k].args, 1, a - 1)
                                    /\ other[1][k].args[a] = v
        /\ Bindable(nodetypeslist, EmptyBag) => state # EmptyBag
        /\ nodetypeslist = <<TypeA.name, TypeB.name>> =>
              {st[1][2].args : st \in BagToSet(state)}
                  = {<<TypedValue("float", 1, 0), TypedValue("float", 1, 1)>>,
                     <<TypedValue("float", 1, 1), TypedValue("float", 1, 0)>>}
C18_Witness ==
    /\ pc = "returned_all"
    /\ nodetypeslist = <<TypeA.name, TypeB.name>>
    /\ BagCardinality(state) = 2

\* C19: a graph handed to generate_unique's loop has been baked: none of its
\* out values has the description "uninitialized" any more.  The code does
\* not keep this: bake is never called.
C19_HandedOutGraphsBaked ==
    GraphBuilt =>
        \A k \in 1..Len(nodes) :
            \A i \in 1..Len(nodes[k].out) :
                nodes[k].out[i].description # "uninitialized"

\* C20: every node type of the library a session runs on (entries of
\* ALL_NODETYPES), and InKey, has as many FORMATSTRINGS as OUTTYPES.  The
\* code does not keep this: RepeatInputKey has two OUTTYPES and one format
\* string.
C20_TemplatePerOutput ==
    \A n \in lib \cup {InKey.name} :
        Len(NodeClass[n].FORMATSTRINGS) = Len(NodeClass[n].OUTTYPES)

\* The states the goal-type definition names: k values of the end type and
\* nothing else, 1 <= k <= MAX_GAME_EFFECTS_PER_POWER.
NamedGoals(endt) ==
    {FrozenMultiset([i \in 1..k |-> endt]) :
        k \in 1..MAX_GAME_EFFECTS_PER_POWER}

\* C21: the search accepts as goal exactly the states made of k values of
\* the end type and nothing else with 1 <= k <= MAX_GAME_EFFECTS_PER_POWER,
\* and every returned sequence ends in such a state (never in the empty
\* multiset).  The code does not keep this: range(MAX_GAME_EFFECTS_PER_POWER)
\* is 0, 1, 2, so the empty multiset is a goal state and three values of the
\* end type are none.
C21_GoalStatesOneToMax ==
    /\ goalstates(end_type) = NamedGoals(end_type)
    /\ (pc = "returned" /\ ~result.isNone) =>
          StateAfter(result.list, Len(result.list),
                     FrozenMultiset(<<start_type>>)) \in NamedGoals(end_type)

\* No state dfs is called with on the shipped library is called again below
\* its own call.
ShippedAcyclic ==
    \A s \in ShippedStates :
        s \notin called_below(LibShipped, "GameEffect",
                              MAX_INTERMEDIATE_UNBOUND_VARS,
                              called_from(LibShipped, "GameEffect",
                                          MAX_INTERMEDIATE_UNBOUND_VARS, s))

\* Some chain of dfs calls on the shipped library ends in a goal state.
ShippedGoalReachable ==
    \E s \in ShippedStates :
        \E n \in possible_nodetypes(LibShipped, s) :
            new_available_types(s, n) \in goalstates("GameEffect")

\* C22: with the library as shipped and the default arguments, no state dfs
\* is called with reaches itself again and a goal state is reachable from
\* the start state; and a search in which no state reaches itself (here: on
\* every selection of shipped entries searched) never has a state twice
\* among its active calls, stays within the recursion limit, returns, and
\* returns None only if no goal state is reachable, a non-empty list
\* otherwise.  So the shipped search returns a non-empty list, never None.
C22_ShippedSearchReturnsList ==
    /\ ShippedAcyclic
    /\ ShippedGoalReachable
    /\ lib \subseteq LibShipped
    /\ pc # "RuntimeError"
    /\ \A j, k \in 1..Len(stack) :
          j < k => stack[j].available_types # stack[k].available_types
    /\ pc = "returned" =>
          (result.isNone <=> ~GoalReachable(lib, start_type, end_type, budget))
    /\ (pc = "returned" /\ ~result.isNone) => result.list # <<>>
C22_Witness ==
    /\ pc = "returned" /\ ~result.isNone
    /\ start_type = "PossiblyRepeatedInputKey"
    /\ budget = MAX_INTERMEDIATE_UNBOUND_VARS
    /\ Len(result.list) >= 5
    /\ \E s \in DOMAIN c : c[s].isNone

\* The multiset of the types of a pool of values.
TypesOf(pool) ==
    [t \in {v.type : v \in pool} |-> Cardinality({v \in pool : v.type = t})]

\* C23: while from_list_of_node_types assembles [InKey] + (a sequence the
\* search returned), the types of the unused values after InKey and the
\* first i node types of the sequence are the search's state after i node
\* types ({start_type} for i = 0), whatever values were bound.
C23_PoolFollowsSearchState ==
    (pc = "assemble" /\ nodes # <<>>) =>
        TypesOf(unused_vars) =
            StateAfter(Tail(nodetypeslist), Len(nodes) - 1,
                       FrozenMultiset(<<start_type>>))
C23_Witness ==
    /\ pc = "assemble"
    /\ Len(nodes) >= 5
    /\ \E k \in 1..Len(nodes) : Len(nodes[k].out) = 2
    /\ \E k \in 1..Len(nodes) : Len(nodes[k].args) = 2
    /\ unused_vars # {}

\* The types no node type of the library gives, and the node types that
\* need one of them.
UnmadeTypes == {"float", "EntityId", "InKey"}
NeedsUnmade(library) ==
    {n \in library : Range(INTYPES(n)) \cap UnmadeTypes # {}}

\* C24: no entry of ALL_NODETYPES has float, EntityId or InKey among its
\* OUTTYPES, so the node types that need one of them (Accumulator,
\* PositionFromEntity, TeleportPlayer, CircleAroundPoint1, AddDamageOnEntity1,
\* ConditionOnEntity1) pass can_add_nodetype in no state dfs is called with
\* (they are among the candidates of no call), are tried by no call and are
\* in no returned sequence.
C24_UnmadeInputsNeverAddable ==
    LET needs == NeedsUnmade(lib)
    IN  /\ NeedsUnmade(LibShipped) =
              {"Accumulator", "PositionFromEntity", "TeleportPlayer",
               "CircleAroundPoint1", "AddDamageOnEntity1",
               "ConditionOnEntity1"}
        /\ \A n \in LibShipped : Range(OUTTYPES(n)) \cap UnmadeTypes = {}
        /\ \A s \in ShippedStates :
              possible_nodetypes(LibShipped, s) \cap NeedsUnmade(LibShipped)
                  = {}
        /\ lib \subseteq LibShipped
        /\ \A k \in 1..Len(stack) :
              /\ stack[k].todo \cap needs = {}
              /\ stack[k].nodetype \notin needs
        /\ (pc = "returned" /\ ~result.isNone) =>
              Range(result.list) \cap needs = {}
C24_Witness ==
    /\ pc = "returned" /\ ~result.isNone
    /\ {"Accumulator", "PositionFromEntity", "TeleportPlayer",
        "CircleAroundPoint1", "AddDamageOnEntity1"} \subseteq lib
    /\ {"CircleAroundPoint0", "AddDamageOnEntity0"}
          \subseteq Range(result.list)

\* Every positional field {k} of the format strings of the node type names
\* one of its inputs: k < len(INTYPES).
SlotsWithinInputs(nodetype) ==
    \A i \in 1..Len(NodeClass[nodetype].FORMATSTRINGS) :
        LET pieces == parse[NodeClass[nodetype].FORMATSTRINGS[i]]
        IN  \A p \in 1..Len(pieces) :
                pieces[p].field < Len(INTYPES(nodetype))

\* C25: baking a node of a graph the assembler has made raises no error:
\* every field {k} of the format strings of its node type has k <
\* len(INTYPES), the variants of the node types with an optional input in
\* which the input is absent included.  The code does not keep this: these
\* variants keep the format string that names the optional input.
C25_BakeNeverRaises ==
    /\ pc = "returned_graph" =>
          \A k \in 1..Len(nodes) : SlotsWithinInputs(nodes[k].cls)
    /\ pc = "IndexError" => Len(nodes) < Len(nodetypeslist)

=============================================================================
